---------------------------- MODULE Spec2Model ----------------------------
(***************************************************************************)
(* Scope guards of the Shenandoah collector (shenandoahUtils.cpp):         *)
(* ShenandoahGCSession, ShenandoahGCPauseMark, ShenandoahGCPhase,          *)
(* ShenandoahAllocTrace and ShenandoahWorkerSession.                       *)
(*                                                                         *)
(* Every guard is a stack object: each thread owns a stack of live guards, *)
(* a constructor pushes a frame and a destructor pops the top frame, so    *)
(* guards of one thread are destroyed in reverse construction order.       *)
(* An assert is compiled only into debug builds (ASSERT defined); a failed *)
(* assert ends the process: fatal holds the message and no action is       *)
(* enabled any more.                                                       *)
(***************************************************************************)
EXTENDS Integers, Sequences, FiniteSets

(* ------------------------------ bounds --------------------------------- *)
\* guards constructed in one run of the collector part
MaxGuards == 3
\* ShenandoahGCPhase guards constructed in one run in which every phase of the
\* enumeration is an input
MaxPhaseGuards == 2
\* live ShenandoahWorkerSession guards, over all threads
MaxWorkerLive == 2
\* largest worker id handed to a ShenandoahWorkerSession
MaxWorkerId == 1
\* ShenandoahAllocTrace scopes opened in one run
MaxAllocs == 2
\* readings of the clock: os::elapsedTime() advances at most this often
MaxTicks == 3
\* microseconds one advance of the clock stands for
TickUs == 50

(* ----------------------------- threads --------------------------------- *)
Threads == {"vm", "conc", "worker"}

\* the threads that run worker sessions, and those that allocate
WorkerThreads == {"conc", "worker"}

AllocThreads == {"worker"}

is_VM_thread(t) == t = "vm"

is_ConcurrentGC_thread(t) == t = "conc"

(* ------------------------------ phases --------------------------------- *)
\* ShenandoahPhaseTimings::Phase, a few of its enumerators in declaration
\* order; an enumerator's value is its position, counted from 0.
PhaseNames ==
  << "init_mark", "scan_roots", "update_roots", "conc_mark", "init_evac",
     "final_update_refs_roots", "degen_gc_update_roots",
     "init_traversal_gc_work", "final_traversal_gc_work",
     "final_traversal_update_roots", "full_gc_roots", "full_gc_mark" >>

_num_phases == Len(PhaseNames)

Phase(name) == (CHOOSE i \in 1..Len(PhaseNames) : PhaseNames[i] = name) - 1

_invalid_phase == _num_phases

\* the phases the collector part constructs ShenandoahGCPhase guards with
PhaseInputs == {Phase("scan_roots"), Phase("conc_mark")}

\* every value of the enumeration below the sentinel
AllPhases == 0 .. (_num_phases - 1)

(* ------------------------------ causes --------------------------------- *)
_no_gc == "_no_gc"

Causes == {"_shenandoah_concurrent_gc", "_allocation_failure"}

(* ------------------------------- state --------------------------------- *)
VARIABLES
  ASSERT,            \* TRUE in a debug build: asserts are compiled in
  fatal,             \* message of the assert that ended the process
  stack,             \* per thread, its live guards, innermost last
  _current_phase,    \* ShenandoahGCPhase::_current_phase
  gc_cause,          \* ShenandoahHeap::_gc_cause
  now,               \* the next value of Ticks::now()
  timer,             \* the heap's GCTimer
  tracer,            \* the heap's GCTracer
  policy,            \* ShenandoahCollectorPolicy notifications
  heuristics,        \* ShenandoahHeuristics notifications
  phase_timings,     \* ShenandoahPhaseTimings records, per phase
  worker_id,         \* Thread::_worker_id, per thread
  ShenandoahAllocationTrace,           \* the tracing toggle
  ShenandoahAllocationStallThreshold,  \* the stall threshold, microseconds
  elapsed,           \* clock advances so far: the source of os::elapsedTime()
  alloc_tracker,     \* records received by ShenandoahAllocTracker
  warnings,          \* allocation stall warnings logged
  calls,             \* the calls made on the collaborators, in order
  raced,             \* a phase was entered while another thread had one open (history)
  entered,           \* per live guard, what held when it was constructed (history)
  last               \* the operation that ran last (history)

gcVars == << _current_phase, gc_cause, now, timer, tracer, policy,
             heuristics, phase_timings, calls, raced >>

allocVars == << ShenandoahAllocationTrace, elapsed, alloc_tracker, warnings >>

vars == << ASSERT, fatal, stack, _current_phase, gc_cause, now, timer, tracer,
           policy, heuristics, phase_timings, worker_id,
           ShenandoahAllocationTrace, ShenandoahAllocationStallThreshold,
           elapsed, alloc_tracker, warnings, calls, raced, entered, last >>

NoError == "none"

Top(s) == s[Len(s)]

Pop(s) == SubSeq(s, 1, Len(s) - 1)

Frames(kind) ==
  { << t, i >> \in Threads \X (1..(MaxGuards + MaxWorkerLive + MaxAllocs + 3)) :
      i <= Len(stack[t]) /\ stack[t][i].kind = kind }

Alive(kind) == Cardinality(Frames(kind))

\* history: entered[t] runs parallel to stack[t]; note is pushed when the
\* step pushed a guard, the top is dropped when the step popped one
Note(t, note) ==
  entered' = [entered EXCEPT ![t] =
                IF Len(stack'[t]) > Len(stack[t]) THEN Append(@, note)
                ELSE IF Len(stack'[t]) < Len(stack[t]) THEN Pop(@)
                ELSE @]

NoNote == [before |-> 0]

\* assert(cond, msg) stops the process in a debug build when cond is false
AssertFails(cond) == ASSERT /\ ~cond

(* ------------------------ ShenandoahGCPhase ---------------------------- *)
is_valid_phase(phase) == phase >= 0 /\ phase < _num_phases

current_phase == _current_phase

\* the query with the full_gc_roots case missing from the switch
is_root_work_phase_without_full_gc ==
  CASE current_phase = Phase("scan_roots") -> TRUE
    [] current_phase = Phase("update_roots") -> TRUE
    [] current_phase = Phase("init_evac") -> TRUE
    [] current_phase = Phase("final_update_refs_roots") -> TRUE
    [] current_phase = Phase("degen_gc_update_roots") -> TRUE
    [] current_phase = Phase("init_traversal_gc_work") -> TRUE
    [] current_phase = Phase("final_traversal_gc_work") -> TRUE
    [] current_phase = Phase("final_traversal_update_roots") -> TRUE
    [] OTHER -> FALSE

\* the switch over current_phase(): nine cases return true, default false
is_root_work_phase ==
  CASE current_phase = Phase("scan_roots") -> TRUE
    [] current_phase = Phase("update_roots") -> TRUE
    [] current_phase = Phase("init_evac") -> TRUE
    [] current_phase = Phase("final_update_refs_roots") -> TRUE
    [] current_phase = Phase("degen_gc_update_roots") -> TRUE
    [] current_phase = Phase("init_traversal_gc_work") -> TRUE
    [] current_phase = Phase("final_traversal_gc_work") -> TRUE
    [] current_phase = Phase("final_traversal_update_roots") -> TRUE
    [] current_phase = Phase("full_gc_roots") -> TRUE
    [] OTHER -> FALSE

record_phase_start(pt, phase) ==
  [pt EXCEPT ![phase].starts = @ + 1]

record_phase_end(pt, phase) ==
  [pt EXCEPT ![phase].ends = @ + 1]

\* guards constructed so far by the collector part
Created ==
  tracer.gc_starts + heuristics.gc_start
    + Cardinality({ << p, k >> \in AllPhases \X (1..MaxGuards + 1) :
                      k <= phase_timings[p].starts })

\* callers serialize phase entry: a thread opens a phase only while no other
\* thread has a live ShenandoahGCPhase
PhasesSerialized(t) ==
  \A f \in Frames("GCPhase") : f[1] = t

\* the constructor that does not read the current phase: every guard's parent
\* is _invalid_phase
GCPhase_ctor_parent_invalid(t, phase) ==
  IF AssertFails(is_VM_thread(t) \/ is_ConcurrentGC_thread(t))
  THEN /\ fatal' = "Must be set by these threads"
       /\ UNCHANGED << stack, _current_phase, phase_timings, calls >>
  ELSE /\ stack' = [stack EXCEPT ![t] = Append(@,
                      [kind |-> "GCPhase", _phase |-> phase,
                       _parent_phase |-> _invalid_phase])]
       /\ _current_phase' = phase
       /\ phase_timings' = record_phase_start(phase_timings, phase)
       /\ calls' = Append(calls, << "phase_timings", "record_phase_start", phase >>)
       /\ UNCHANGED fatal

\* the constructor without the thread-role assertion
GCPhase_ctor_any_thread(t, phase) ==
  /\ stack' = [stack EXCEPT ![t] = Append(@,
                 [kind |-> "GCPhase", _phase |-> phase,
                  _parent_phase |-> _current_phase])]
  /\ _current_phase' = phase
  /\ phase_timings' = record_phase_start(phase_timings, phase)
  /\ calls' = Append(calls, << "phase_timings", "record_phase_start", phase >>)
  /\ UNCHANGED fatal

\* the constructor with its two assignments in the other order: the parent is
\* saved after the current phase is overwritten
GCPhase_ctor_saves_late(t, phase) ==
  IF AssertFails(is_VM_thread(t) \/ is_ConcurrentGC_thread(t))
  THEN /\ fatal' = "Must be set by these threads"
       /\ UNCHANGED << stack, _current_phase, phase_timings, calls >>
  ELSE /\ stack' = [stack EXCEPT ![t] = Append(@,
                      [kind |-> "GCPhase", _phase |-> phase,
                       _parent_phase |-> phase])]
       /\ _current_phase' = phase
       /\ phase_timings' = record_phase_start(phase_timings, phase)
       /\ calls' = Append(calls, << "phase_timings", "record_phase_start", phase >>)
       /\ UNCHANGED fatal

GCPhase_ctor_body(t, phase) ==
  IF AssertFails(is_VM_thread(t) \/ is_ConcurrentGC_thread(t))
  THEN /\ fatal' = "Must be set by these threads"
       /\ UNCHANGED << stack, _current_phase, phase_timings, calls >>
  ELSE /\ stack' = [stack EXCEPT ![t] = Append(@,
                      [kind |-> "GCPhase", _phase |-> phase,
                       _parent_phase |-> _current_phase])]
       /\ _current_phase' = phase
       /\ phase_timings' = record_phase_start(phase_timings, phase)
       /\ calls' = Append(calls, << "phase_timings", "record_phase_start", phase >>)
       /\ UNCHANGED fatal

GCPhase_ctor(t, phase) ==
  /\ fatal = NoError
  /\ Created < MaxGuards
  /\ GCPhase_ctor_body(t, phase)
  /\ Note(t, [before |-> _current_phase, phase |-> phase])
  /\ raced' = (raced \/ (stack' # stack /\ ~PhasesSerialized(t)))
  /\ last' = [op |-> "GCPhase", thread |-> t, before |-> _current_phase]
  /\ UNCHANGED << ASSERT, gc_cause, now, timer, tracer, policy, heuristics,
                  worker_id, allocVars, ShenandoahAllocationStallThreshold >>

\* the destructor restoring the parent without recording the phase's end
GCPhase_dtor_without_end(t) ==
  LET g == Top(stack[t]) IN
  /\ UNCHANGED << phase_timings, calls >>
  /\ _current_phase' = g._parent_phase
  /\ stack' = [stack EXCEPT ![t] = Pop(@)]

\* the destructor recording the end but leaving the current phase as it is
GCPhase_dtor_keeps_phase(t) ==
  LET g == Top(stack[t]) IN
  /\ phase_timings' = record_phase_end(phase_timings, g._phase)
  /\ calls' = Append(calls, << "phase_timings", "record_phase_end", g._phase >>)
  /\ UNCHANGED _current_phase
  /\ stack' = [stack EXCEPT ![t] = Pop(@)]

GCPhase_dtor_body(t) ==
  LET g == Top(stack[t]) IN
  /\ phase_timings' = record_phase_end(phase_timings, g._phase)
  /\ calls' = Append(calls, << "phase_timings", "record_phase_end", g._phase >>)
  /\ _current_phase' = g._parent_phase
  /\ stack' = [stack EXCEPT ![t] = Pop(@)]

GCPhase_dtor(t) ==
  /\ fatal = NoError
  /\ stack[t] # << >>
  /\ Top(stack[t]).kind = "GCPhase"
  /\ GCPhase_dtor_body(t)
  /\ Note(t, NoNote)
  /\ last' = [op |-> "~GCPhase", thread |-> t, before |-> Top(entered[t]).before]
  /\ UNCHANGED << ASSERT, raced, fatal, gc_cause, now, timer, tracer, policy,
                  heuristics, worker_id, allocVars,
                  ShenandoahAllocationStallThreshold >>

\* a thread asks ShenandoahGCPhase::is_root_work_phase(); the answer is kept
\* in last
RootWorkQuery(t) ==
  /\ fatal = NoError
  /\ last' = [op |-> "is_root_work_phase", thread |-> t,
              before |-> _current_phase, result |-> is_root_work_phase]
  /\ UNCHANGED << ASSERT, fatal, stack, gcVars, worker_id, allocVars,
                  ShenandoahAllocationStallThreshold, entered >>

(* ----------------------- ShenandoahGCSession --------------------------- *)
\* TraceMemoryManagerStats::initialize's arguments, as the guard keeps them
TraceStats(fullGC, cause, pools, begin, pre, peak, post, acc, end, count) ==
  [fullGC |-> fullGC, cause |-> cause, allMemoryPoolsAffected |-> pools,
   recordGCBeginTime |-> begin, recordPreGCUsage |-> pre,
   recordPeakUsage |-> peak, recordPostGCUsage |-> post,
   recordAccumulatedGCTime |-> acc, recordGCEndTime |-> end,
   countCollection |-> count]

\* the constructor refusing a second session: it also asserts that the heap's
\* cause is still _no_gc
GCSession_ctor_one_session(t, cause) ==
  IF AssertFails(~is_valid_phase(current_phase)) \/ gc_cause # _no_gc
  THEN /\ fatal' = "No current GC phase"
       /\ UNCHANGED << stack, gc_cause, now, timer, tracer, policy, heuristics,
                       calls >>
  ELSE /\ gc_cause' = cause
       /\ timer' = [timer EXCEPT !._gc_start = now]
       /\ now' = now + 1
       /\ tracer' = [tracer EXCEPT !.gc_starts = @ + 1, !.cause = cause,
                                   !.start = timer'._gc_start,
                                   !.heap_traces = @ + 1]
       /\ policy' = [policy EXCEPT !.cycle_start = @ + 1]
       /\ heuristics' = [heuristics EXCEPT !.cycle_start = @ + 1]
       /\ calls' = calls \o << << "heap", "set_gc_cause", cause >>,
                                     << "timer", "register_gc_start" >>,
                                     << "tracer", "report_gc_start", cause >>,
                                     << "heap", "trace_heap" >>,
                                     << "policy", "record_cycle_start" >>,
                                     << "heuristics", "record_cycle_start" >> >>
       /\ stack' = [stack EXCEPT ![t] = Append(@,
                      [kind |-> "GCSession", cause |-> cause,
                       _trace_cycle |->
                         TraceStats(FALSE, cause, TRUE, TRUE, TRUE, TRUE, TRUE,
                                    TRUE, TRUE, TRUE)])]
       /\ UNCHANGED fatal

\* the constructor without its precondition
GCSession_ctor_unchecked(t, cause) ==
  /\ gc_cause' = cause
  /\ timer' = [timer EXCEPT !._gc_start = now]
  /\ now' = now + 1
  /\ tracer' = [tracer EXCEPT !.gc_starts = @ + 1, !.cause = cause,
                              !.start = timer'._gc_start,
                              !.heap_traces = @ + 1]
  /\ policy' = [policy EXCEPT !.cycle_start = @ + 1]
  /\ heuristics' = [heuristics EXCEPT !.cycle_start = @ + 1]
  /\ calls' = calls \o << << "heap", "set_gc_cause", cause >>,
                                << "timer", "register_gc_start" >>,
                                << "tracer", "report_gc_start", cause >>,
                                << "heap", "trace_heap" >>,
                                << "policy", "record_cycle_start" >>,
                                << "heuristics", "record_cycle_start" >> >>
  /\ stack' = [stack EXCEPT ![t] = Append(@,
                 [kind |-> "GCSession", cause |-> cause,
                  _trace_cycle |->
                    TraceStats(FALSE, cause, TRUE, TRUE, TRUE, TRUE, TRUE,
                               TRUE, TRUE, TRUE)])]
  /\ UNCHANGED fatal

GCSession_ctor_body(t, cause) ==
  IF AssertFails(~is_valid_phase(current_phase))
  THEN /\ fatal' = "No current GC phase"
       /\ UNCHANGED << stack, gc_cause, now, timer, tracer, policy, heuristics,
                       calls >>
  ELSE /\ gc_cause' = cause
       /\ timer' = [timer EXCEPT !._gc_start = now]
       /\ now' = now + 1
       /\ tracer' = [tracer EXCEPT !.gc_starts = @ + 1, !.cause = cause,
                                   !.start = timer'._gc_start,
                                   !.heap_traces = @ + 1]
       /\ policy' = [policy EXCEPT !.cycle_start = @ + 1]
       /\ heuristics' = [heuristics EXCEPT !.cycle_start = @ + 1]
       /\ calls' = calls \o << << "heap", "set_gc_cause", cause >>,
                                     << "timer", "register_gc_start" >>,
                                     << "tracer", "report_gc_start", cause >>,
                                     << "heap", "trace_heap" >>,
                                     << "policy", "record_cycle_start" >>,
                                     << "heuristics", "record_cycle_start" >> >>
       /\ stack' = [stack EXCEPT ![t] = Append(@,
                      [kind |-> "GCSession", cause |-> cause,
                       _trace_cycle |->
                         TraceStats(FALSE, cause, TRUE, TRUE, TRUE, TRUE, TRUE,
                                    TRUE, TRUE, TRUE)])]
       /\ UNCHANGED fatal

GCSession_ctor(t, cause) ==
  /\ fatal = NoError
  /\ Created < MaxGuards
  /\ GCSession_ctor_body(t, cause)
  /\ Note(t, NoNote)
  /\ last' = [op |-> "GCSession", thread |-> t, before |-> _current_phase]
  /\ UNCHANGED << ASSERT, raced, _current_phase, phase_timings, worker_id,
                  allocVars,
                  ShenandoahAllocationStallThreshold >>

\* the destructor without its assert
GCSession_dtor_unchecked(t) ==
  /\ heuristics' = [heuristics EXCEPT !.cycle_end = @ + 1]
  /\ tracer' = [tracer EXCEPT !.gc_ends = @ + 1, !.end = timer._gc_end]
  /\ timer' = [timer EXCEPT !._gc_end = now]
  /\ now' = now + 1
  /\ calls' = calls \o
       << << "heuristics", "record_cycle_end" >>,
          << "tracer", "report_gc_end" >>,
          << "timer", "register_gc_end" >>,
          << "heap", "set_gc_cause", _no_gc >> >>
  /\ gc_cause' = _no_gc
  /\ stack' = [stack EXCEPT ![t] = Pop(@)]
  /\ UNCHANGED fatal

\* the destructor without its last statement: the cause is left as it is
GCSession_dtor_keeps_cause(t) ==
  /\ heuristics' = [heuristics EXCEPT !.cycle_end = @ + 1]
  /\ tracer' = [tracer EXCEPT !.gc_ends = @ + 1, !.end = timer._gc_end]
  /\ timer' = [timer EXCEPT !._gc_end = now]
  /\ now' = now + 1
  /\ calls' = calls \o
       << << "heuristics", "record_cycle_end" >>,
          << "tracer", "report_gc_end" >>,
          << "timer", "register_gc_end" >> >>
  /\ IF AssertFails(~is_valid_phase(current_phase))
     THEN /\ fatal' = "No current GC phase"
          /\ UNCHANGED << stack, gc_cause >>
     ELSE /\ stack' = [stack EXCEPT ![t] = Pop(@)]
          /\ UNCHANGED << fatal, gc_cause >>

GCSession_dtor_body(t) ==
  /\ heuristics' = [heuristics EXCEPT !.cycle_end = @ + 1]
  /\ tracer' = [tracer EXCEPT !.gc_ends = @ + 1, !.end = timer._gc_end]
  /\ timer' = [timer EXCEPT !._gc_end = now]
  /\ now' = now + 1
  /\ calls' = calls \o
       << << "heuristics", "record_cycle_end" >>,
          << "tracer", "report_gc_end" >>,
          << "timer", "register_gc_end" >> >>
       \o (IF AssertFails(~is_valid_phase(current_phase)) THEN << >>
           ELSE << << "heap", "set_gc_cause", _no_gc >> >>)
  /\ IF AssertFails(~is_valid_phase(current_phase))
     THEN /\ fatal' = "No current GC phase"
          /\ UNCHANGED << stack, gc_cause >>
     ELSE /\ gc_cause' = _no_gc
          /\ stack' = [stack EXCEPT ![t] = Pop(@)]
          /\ UNCHANGED fatal

GCSession_dtor(t) ==
  /\ fatal = NoError
  /\ stack[t] # << >>
  /\ Top(stack[t]).kind = "GCSession"
  /\ GCSession_dtor_body(t)
  /\ Note(t, NoNote)
  /\ last' = [op |-> "~GCSession", thread |-> t, before |-> _current_phase]
  /\ UNCHANGED << ASSERT, raced, _current_phase, policy, phase_timings,
                  worker_id, allocVars, ShenandoahAllocationStallThreshold >>

(* ---------------------- ShenandoahGCPauseMark -------------------------- *)
\* the constructor entering a phase of its own in the registry
GCPauseMark_ctor_enters_phase(t) ==
  /\ timer' = [timer EXCEPT !.phases = Append(@, << "Shenandoah", now >>)]
  /\ now' = now + 1
  /\ stack' = [stack EXCEPT ![t] = Append(@,
                 [kind |-> "GCPauseMark",
                  _trace_pause |->
                    TraceStats(TRUE, gc_cause, TRUE, TRUE, FALSE, FALSE, FALSE,
                               TRUE, TRUE, TRUE)])]
  /\ heuristics' = [heuristics EXCEPT !.gc_start = @ + 1]
  /\ calls' = calls \o << << "timer", "register_gc_phase_start", "Shenandoah" >>,
                          << "heuristics", "record_gc_start" >> >>
  /\ _current_phase' = Phase("init_mark")
  /\ UNCHANGED phase_timings

\* the constructor asking the pause record for pre-GC usage, as the cycle
\* record does
GCPauseMark_ctor_with_usage(t) ==
  /\ timer' = [timer EXCEPT !.phases = Append(@, << "Shenandoah", now >>)]
  /\ now' = now + 1
  /\ stack' = [stack EXCEPT ![t] = Append(@,
                 [kind |-> "GCPauseMark",
                  _trace_pause |->
                    TraceStats(TRUE, gc_cause, TRUE, TRUE, TRUE, FALSE, FALSE,
                               TRUE, TRUE, TRUE)])]
  /\ heuristics' = [heuristics EXCEPT !.gc_start = @ + 1]
  /\ calls' = calls \o << << "timer", "register_gc_phase_start", "Shenandoah" >>,
                          << "heuristics", "record_gc_start" >> >>
  /\ UNCHANGED << _current_phase, phase_timings >>

GCPauseMark_ctor_body(t) ==
  /\ timer' = [timer EXCEPT !.phases = Append(@, << "Shenandoah", now >>)]
  /\ now' = now + 1
  /\ stack' = [stack EXCEPT ![t] = Append(@,
                 [kind |-> "GCPauseMark",
                  _trace_pause |->
                    TraceStats(TRUE, gc_cause, TRUE, TRUE, FALSE, FALSE, FALSE,
                               TRUE, TRUE, TRUE)])]
  /\ heuristics' = [heuristics EXCEPT !.gc_start = @ + 1]
  /\ calls' = calls \o << << "timer", "register_gc_phase_start", "Shenandoah" >>,
                          << "heuristics", "record_gc_start" >> >>
  /\ UNCHANGED << _current_phase, phase_timings >>

GCPauseMark_ctor(t) ==
  /\ fatal = NoError
  /\ Created < MaxGuards
  /\ GCPauseMark_ctor_body(t)
  /\ Note(t, NoNote)
  /\ last' = [op |-> "GCPauseMark", thread |-> t, before |-> _current_phase]
  /\ UNCHANGED << ASSERT, raced, fatal, gc_cause, tracer, policy,
                  worker_id, allocVars,
                  ShenandoahAllocationStallThreshold >>

\* the destructor telling the heuristics before it closes the timer's bracket
GCPauseMark_dtor_heuristics_first(t) ==
  /\ timer' = [timer EXCEPT !.phases = Pop(@), !.phase_ends = @ + 1]
  /\ now' = now + 1
  /\ heuristics' = [heuristics EXCEPT !.gc_end = @ + 1]
  /\ calls' = calls \o << << "heuristics", "record_gc_end" >>,
                          << "timer", "register_gc_phase_end" >> >>
  /\ stack' = [stack EXCEPT ![t] = Pop(@)]
  /\ UNCHANGED << _current_phase, phase_timings >>

GCPauseMark_dtor_body(t) ==
  /\ timer' = [timer EXCEPT !.phases = Pop(@), !.phase_ends = @ + 1]
  /\ now' = now + 1
  /\ heuristics' = [heuristics EXCEPT !.gc_end = @ + 1]
  /\ calls' = calls \o << << "timer", "register_gc_phase_end" >>,
                          << "heuristics", "record_gc_end" >> >>
  /\ stack' = [stack EXCEPT ![t] = Pop(@)]
  /\ UNCHANGED << _current_phase, phase_timings >>

GCPauseMark_dtor(t) ==
  /\ fatal = NoError
  /\ stack[t] # << >>
  /\ Top(stack[t]).kind = "GCPauseMark"
  /\ GCPauseMark_dtor_body(t)
  /\ Note(t, NoNote)
  /\ last' = [op |-> "~GCPauseMark", thread |-> t, before |-> _current_phase]
  /\ UNCHANGED << ASSERT, raced, fatal, gc_cause, tracer, policy,
                  worker_id, allocVars,
                  ShenandoahAllocationStallThreshold >>

(* --------------------- ShenandoahWorkerSession ------------------------- *)
\* Thread::_worker_id is a uint; the sentinel is uint(-1), the largest value
\* of the word (a word of 16 bits here)
INVALID_WORKER_ID == 2^16 - 1

WorkerIds == (0..MaxWorkerId) \cup {INVALID_WORKER_ID}

\* ShenandoahWorkerSession and its two subclasses
WorkerFlavors == {"WorkerSession", "ConcurrentWorkerSession",
                  "ParallelWorkerSession"}

\* the constructor without its precondition: the id is overwritten
WorkerSession_ctor_unchecked(t, id, flavor) ==
  /\ worker_id' = [worker_id EXCEPT ![t] = id]
  /\ stack' = [stack EXCEPT ![t] = Append(@,
                 [kind |-> "WorkerSession", flavor |-> flavor,
                  _worker_id |-> id])]
  /\ UNCHANGED fatal

WorkerSession_ctor_body(t, id, flavor) ==
  IF AssertFails(worker_id[t] = INVALID_WORKER_ID)
  THEN /\ fatal' = "Already set"
       /\ UNCHANGED << stack, worker_id >>
  ELSE /\ worker_id' = [worker_id EXCEPT ![t] = id]
       /\ stack' = [stack EXCEPT ![t] = Append(@,
                      [kind |-> "WorkerSession", flavor |-> flavor,
                       _worker_id |-> id])]
       /\ UNCHANGED fatal

WorkerSession_ctor(t, id, flavor) ==
  /\ fatal = NoError
  /\ Alive("WorkerSession") < MaxWorkerLive
  /\ WorkerSession_ctor_body(t, id, flavor)
  /\ Note(t, NoNote)
  /\ last' = [op |-> "WorkerSession", thread |-> t, before |-> worker_id[t]]
  /\ UNCHANGED << ASSERT, gcVars, allocVars,
                  ShenandoahAllocationStallThreshold >>

\* the destructor checking the id in a debug build but never resetting it
WorkerSession_dtor_without_reset(t) ==
  IF AssertFails(worker_id[t] # INVALID_WORKER_ID)
  THEN /\ fatal' = "Must be set"
       /\ UNCHANGED << stack, worker_id >>
  ELSE /\ stack' = [stack EXCEPT ![t] = Pop(@)]
       /\ UNCHANGED << fatal, worker_id >>

\* ~ShenandoahConcurrentWorkerSession and ~ShenandoahParallelWorkerSession do
\* nothing; the base destructor runs after them. Its body is compiled only
\* under #ifdef ASSERT.
WorkerSession_dtor_body(t) ==
  IF ASSERT
  THEN IF AssertFails(worker_id[t] # INVALID_WORKER_ID)
       THEN /\ fatal' = "Must be set"
            /\ UNCHANGED << stack, worker_id >>
       ELSE /\ worker_id' = [worker_id EXCEPT ![t] = INVALID_WORKER_ID]
            /\ stack' = [stack EXCEPT ![t] = Pop(@)]
            /\ UNCHANGED fatal
  ELSE /\ stack' = [stack EXCEPT ![t] = Pop(@)]
       /\ UNCHANGED << fatal, worker_id >>

WorkerSession_dtor(t) ==
  /\ fatal = NoError
  /\ stack[t] # << >>
  /\ Top(stack[t]).kind = "WorkerSession"
  /\ WorkerSession_dtor_body(t)
  /\ Note(t, NoNote)
  /\ last' = [op |-> "~WorkerSession", thread |-> t, before |-> worker_id[t]]
  /\ UNCHANGED << ASSERT, gcVars, allocVars,
                  ShenandoahAllocationStallThreshold >>

(* ----------------------- ShenandoahAllocTrace -------------------------- *)
\* os::elapsedTime(): seconds since start, kept as a whole number of clock
\* units of TickUs microseconds each
os_elapsedTime == elapsed

\* duration_sec * 1000000, for a duration kept in clock units
duration_us_of(duration_sec) == duration_sec * TickUs

\* requested sizes (words) and ShenandoahAllocRequest::Type values
AllocSizes == {1, 2}

AllocTypes == {0, 2}

AllocTrace_ctor_body(t, words_size, alloc_type) ==
  stack' = [stack EXCEPT ![t] = Append(@,
    IF ShenandoahAllocationTrace
    THEN [kind |-> "AllocTrace", _start |-> os_elapsedTime,
          _size |-> words_size, _alloc_type |-> alloc_type]
    ELSE [kind |-> "AllocTrace", _start |-> 0, _size |-> 0,
          _alloc_type |-> 0])]

\* scopes open, and scopes whose record the tracker holds
AllocsOpened == Alive("AllocTrace") + Len(alloc_tracker)

AllocTrace_ctor(t, words_size, alloc_type) ==
  /\ fatal = NoError
  /\ AllocsOpened < MaxAllocs
  /\ AllocTrace_ctor_body(t, words_size, alloc_type)
  /\ Note(t, [before |-> elapsed, words_size |-> words_size,
               alloc_type |-> alloc_type,
               traced |-> ShenandoahAllocationTrace])
  /\ last' = [op |-> "AllocTrace", thread |-> t, before |-> elapsed]
  /\ UNCHANGED << ASSERT, fatal, gcVars, allocVars, worker_id,
                  ShenandoahAllocationStallThreshold >>

\* the destructor without the test of the toggle
AllocTrace_dtor_always_records(t) ==
  LET g == Top(stack[t])
      stop == os_elapsedTime
      duration_sec == stop - g._start
      duration_us == duration_us_of(duration_sec)
  IN /\ stack' = [stack EXCEPT ![t] = Pop(@)]
     /\ alloc_tracker' =
          Append(alloc_tracker, << g._size, g._alloc_type, duration_us >>)
     /\ warnings' =
          IF duration_us > ShenandoahAllocationStallThreshold
          THEN Append(warnings,
                 << duration_us, ShenandoahAllocationStallThreshold >>)
          ELSE warnings

\* the destructor warning from the threshold on: >= in place of >
AllocTrace_dtor_warns_at_threshold(t) ==
  LET g == Top(stack[t]) IN
  /\ stack' = [stack EXCEPT ![t] = Pop(@)]
  /\ IF ShenandoahAllocationTrace
     THEN LET stop == os_elapsedTime
              duration_sec == stop - g._start
              duration_us == duration_us_of(duration_sec)
          IN /\ alloc_tracker' =
                  Append(alloc_tracker, << g._size, g._alloc_type, duration_us >>)
             /\ warnings' =
                  IF duration_us >= ShenandoahAllocationStallThreshold
                  THEN Append(warnings,
                         << duration_us, ShenandoahAllocationStallThreshold >>)
                  ELSE warnings
     ELSE UNCHANGED << alloc_tracker, warnings >>

AllocTrace_dtor_body(t) ==
  LET g == Top(stack[t]) IN
  /\ stack' = [stack EXCEPT ![t] = Pop(@)]
  /\ IF ShenandoahAllocationTrace
     THEN LET stop == os_elapsedTime
              duration_sec == stop - g._start
              duration_us == duration_us_of(duration_sec)
          IN /\ alloc_tracker' =
                  Append(alloc_tracker, << g._size, g._alloc_type, duration_us >>)
             /\ warnings' =
                  IF duration_us > ShenandoahAllocationStallThreshold
                  THEN Append(warnings,
                         << duration_us, ShenandoahAllocationStallThreshold >>)
                  ELSE warnings
     ELSE UNCHANGED << alloc_tracker, warnings >>

AllocTrace_dtor(t) ==
  /\ fatal = NoError
  /\ stack[t] # << >>
  /\ Top(stack[t]).kind = "AllocTrace"
  /\ AllocTrace_dtor_body(t)
  /\ Note(t, NoNote)
  /\ last' = [op |-> "~AllocTrace", thread |-> t, before |-> Top(entered[t]).before]
  /\ UNCHANGED << ASSERT, fatal, gcVars, worker_id, ShenandoahAllocationTrace,
                  elapsed, ShenandoahAllocationStallThreshold >>

\* the clock advances
Tick ==
  /\ fatal = NoError
  /\ elapsed < MaxTicks
  /\ elapsed' = elapsed + 1
  /\ UNCHANGED << ASSERT, fatal, stack, gcVars, worker_id,
                  ShenandoahAllocationTrace, ShenandoahAllocationStallThreshold,
                  alloc_tracker, warnings, entered, last >>

\* the tracing toggle is a global flag: it can be written while scopes are open
SetAllocationTrace(b) ==
  /\ fatal = NoError
  /\ ShenandoahAllocationTrace # b
  /\ ShenandoahAllocationTrace' = b
  /\ UNCHANGED << ASSERT, fatal, stack, gcVars, worker_id, elapsed,
                  ShenandoahAllocationStallThreshold, alloc_tracker, warnings,
                  entered, last >>

(* --------------------------- specification ----------------------------- *)
Init ==
  /\ ASSERT \in BOOLEAN
  /\ fatal = NoError
  /\ stack = [t \in Threads |-> << >>]
  /\ _current_phase = _invalid_phase
  /\ gc_cause = _no_gc
  /\ now = 1
  /\ timer = [_gc_start |-> 0, _gc_end |-> 0, phases |-> << >>, phase_ends |-> 0]
  /\ tracer = [gc_starts |-> 0, gc_ends |-> 0, cause |-> _no_gc, start |-> 0,
               end |-> 0, heap_traces |-> 0]
  /\ policy = [cycle_start |-> 0]
  /\ heuristics = [cycle_start |-> 0, cycle_end |-> 0, gc_start |-> 0,
                   gc_end |-> 0]
  /\ phase_timings = [p \in 0..(_num_phases - 1) |-> [starts |-> 0, ends |-> 0]]
  /\ worker_id = [t \in Threads |-> INVALID_WORKER_ID]
  /\ ShenandoahAllocationTrace \in BOOLEAN
  /\ ShenandoahAllocationStallThreshold \in {0, 100}
  /\ elapsed = 0
  /\ alloc_tracker = << >>
  /\ warnings = << >>
  /\ calls = << >>
  /\ raced = FALSE
  /\ entered = [t \in Threads |-> << >>]
  /\ last = [op |-> "init", thread |-> "vm", before |-> _invalid_phase]

\* the collector part: the allocation tunables play no role in it
InitGC ==
  /\ Init
  /\ ~ShenandoahAllocationTrace
  /\ ShenandoahAllocationStallThreshold = 100

NextGC ==
  \/ \E t \in {"vm", "conc"}, cause \in Causes : GCSession_ctor(t, cause)
  \/ \E t \in {"vm", "conc"} : GCSession_dtor(t)
  \/ GCPauseMark_ctor("vm")
  \/ GCPauseMark_dtor("vm")
  \/ \E t \in Threads, phase \in PhaseInputs :
        PhasesSerialized(t) /\ GCPhase_ctor(t, phase)
  \/ \E t \in Threads : GCPhase_dtor(t)

SpecGC == InitGC /\ [][NextGC]_vars

\* the phase registry alone, over every phase of the enumeration, with the
\* root-work query
NextPhases ==
  \/ \E t \in {"vm", "conc"}, phase \in AllPhases :
        /\ PhasesSerialized(t)
        /\ Created < MaxPhaseGuards
        /\ GCPhase_ctor(t, phase)
  \/ \E t \in {"vm", "conc"} : GCPhase_dtor(t)
  \/ \E t \in Threads : RootWorkQuery(t)

SpecPhases == InitGC /\ [][NextPhases]_vars

\* the collector part with nothing serializing the two threads' phases: the
\* VM thread and a concurrent-GC thread open and close phases as they like,
\* each in its own stack order
NextRace ==
  \/ \E t \in {"vm", "conc"}, phase \in PhaseInputs : GCPhase_ctor(t, phase)
  \/ \E t \in {"vm", "conc"} : GCPhase_dtor(t)
  \/ \E t \in {"vm", "conc"}, cause \in Causes : GCSession_ctor(t, cause)
  \/ \E t \in {"vm", "conc"} : GCSession_dtor(t)

SpecRace == InitGC /\ [][NextRace]_vars

\* cycles one after the other, each with its pauses one after the other: a
\* session is opened while none is, a pause inside a session while no pause is
NextCycle ==
  \/ \E t \in {"vm", "conc"}, cause \in Causes :
        /\ Alive("GCSession") = 0
        /\ GCSession_ctor(t, cause)
  \/ \E t \in {"vm", "conc"} :
        /\ Alive("GCPauseMark") = 0
        /\ GCSession_dtor(t)
  \/ /\ Alive("GCSession") = 1
     /\ Alive("GCPauseMark") = 0
     /\ GCPauseMark_ctor("vm")
  \/ GCPauseMark_dtor("vm")

SpecCycle == InitGC /\ [][NextCycle]_vars

\* the worker sessions of the threads
NextWorker ==
  \/ \E t \in WorkerThreads, id \in WorkerIds, flavor \in WorkerFlavors :
        WorkerSession_ctor(t, id, flavor)
  \/ \E t \in WorkerThreads : WorkerSession_dtor(t)

SpecWorker == InitGC /\ [][NextWorker]_vars

\* the allocation trace scopes of the threads
NextAlloc ==
  \/ \E t \in AllocThreads, words_size \in AllocSizes, alloc_type \in AllocTypes :
        AllocTrace_ctor(t, words_size, alloc_type)
  \/ \E t \in AllocThreads : AllocTrace_dtor(t)
  \/ Tick
  \/ \E b \in BOOLEAN : SetAllocationTrace(b)

SpecAlloc == Init /\ [][NextAlloc]_vars

Next == NextGC \/ NextWorker \/ NextAlloc

Spec == Init /\ [][Next]_vars

(* ------------------------------ claims --------------------------------- *)
\* a step in which operation op ran: a constructor pushes a guard, a
\* destructor pops one, and either may instead end the process
Did(op) == last'.op = op /\ (stack' # stack \/ fatal' # fatal)

\* C1: with guards destroyed in reverse construction order by one thread at a
\* time, _current_phase right after a ShenandoahGCPhase is destroyed is the
\* value it had right before that guard was constructed, and it is
\* _invalid_phase whenever no ShenandoahGCPhase is alive.
C1_PhaseRestored ==
  /\ (last.op = "~GCPhase" => _current_phase = last.before)
  /\ (Alive("GCPhase") = 0 => _current_phase = _invalid_phase)

\* an inner guard was destroyed inside an outer one that is still alive
C1_Witness ==
  /\ last.op = "~GCPhase"
  /\ Alive("GCPhase") = 1
  /\ is_valid_phase(_current_phase)
  /\ phase_timings[Phase("scan_roots")].ends = 1
  /\ _current_phase = Phase("conc_mark")

\* the start-of-cycle effects of ShenandoahGCSession's constructor
CycleStartEffects == << gc_cause, timer, tracer, policy, heuristics >>

\* C2 as stated: constructing a ShenandoahGCSession while the current phase
\* is valid ends in the fatal state, before any start-of-cycle effect.
C2_Original ==
  [][(Did("GCSession") /\ is_valid_phase(_current_phase))
       => (fatal' # NoError /\ UNCHANGED CycleStartEffects)]_vars

\* C2, amended: in a debug build (asserts compiled in), constructing a
\* ShenandoahGCSession while the current phase is valid ends in the fatal
\* state "No current GC phase" before any start-of-cycle effect: cause, timer,
\* tracer, policy and heuristics are as they were.
C2_DebugBuild ==
  [][(ASSERT /\ Did("GCSession") /\ is_valid_phase(_current_phase))
       => (fatal' = "No current GC phase" /\ UNCHANGED CycleStartEffects)]_vars

\* a session constructor met a live phase and stopped the process
C2_Witness ==
  /\ ASSERT
  /\ last.op = "GCSession"
  /\ fatal = "No current GC phase"
  /\ is_valid_phase(_current_phase)
  /\ Alive("GCPhase") >= 1

\* C3: after ~ShenandoahGCSession has run to its end the heap's GC cause is
\* GCCause::_no_gc, whatever cause the session was given and whatever
\* nested pauses and phases it bracketed.
C3_CauseReset ==
  (last.op = "~GCSession" /\ fatal = NoError) => gc_cause = _no_gc

\* a session that bracketed a pause and a phase has been destroyed
C3_Witness ==
  /\ last.op = "~GCSession"
  /\ fatal = NoError
  /\ tracer.cause = "_allocation_failure"
  /\ heuristics.gc_end >= 1
  /\ \E p \in PhaseInputs : phase_timings[p].ends >= 1
  /\ stack[last.thread] = << >>

\* the thread of the step's operation
Actor == last'.thread

\* C4 as stated: constructing a ShenandoahWorkerSession on a thread whose
\* worker id is not INVALID_WORKER_ID ends in the fatal state and leaves the
\* thread's worker id as it was.
C4_Original ==
  [][(Did("WorkerSession") /\ worker_id[Actor] # INVALID_WORKER_ID)
       => (fatal' # NoError /\ worker_id' = worker_id)]_vars

\* C4, amended: in a debug build, constructing a ShenandoahWorkerSession of
\* any flavor on a thread whose worker id is not INVALID_WORKER_ID ends in the
\* fatal state "Already set" and leaves every worker id as it was.
C4_DebugBuild ==
  [][(ASSERT /\ Did("WorkerSession") /\ worker_id[Actor] # INVALID_WORKER_ID)
       => (fatal' = "Already set" /\ worker_id' = worker_id)]_vars

\* a second worker session on a thread that held id 0 stopped the process
C4_Witness ==
  /\ ASSERT
  /\ last.op = "WorkerSession"
  /\ fatal = "Already set"
  /\ worker_id[last.thread] = 0
  /\ Len(stack[last.thread]) = 1

\* C5 as stated: in a debug build and in a product build alike, after a
\* ShenandoahWorkerSession has been destroyed the thread's worker id is
\* INVALID_WORKER_ID.
C5_Original ==
  (last.op = "~WorkerSession" /\ fatal = NoError)
    => worker_id[last.thread] = INVALID_WORKER_ID

\* C6: while the tracing toggle is off, constructing a ShenandoahAllocTrace
\* stores zero in _start, _size and _alloc_type, and destroying one sends
\* nothing to the latency tracker and logs no warning, whatever the size, the
\* type and the time that passed.
C6_DisabledIsNoOp ==
  [][/\ (Did("AllocTrace") /\ ~ShenandoahAllocationTrace)
          => /\ Top(stack'[Actor])._start = 0
             /\ Top(stack'[Actor])._size = 0
             /\ Top(stack'[Actor])._alloc_type = 0
     /\ (Did("~AllocTrace") /\ ~ShenandoahAllocationTrace)
          => UNCHANGED << alloc_tracker, warnings >>]_vars

\* a scope that ran for longer than the threshold with the toggle off has
\* ended, and the tracker and the log are empty
C6_Witness ==
  /\ last.op = "~AllocTrace"
  /\ ~ShenandoahAllocationTrace
  /\ (elapsed - last.before) * TickUs > ShenandoahAllocationStallThreshold
  /\ ShenandoahAllocationStallThreshold = 100
  /\ alloc_tracker = << >>
  /\ warnings = << >>

\* C7: a scope constructed and destroyed with the toggle on sends exactly one
\* record to the tracker, with the size and the type given at construction
\* and the time from start to stop in microseconds, and logs exactly one
\* warning if that time is greater than the threshold and none otherwise.
C7_EnabledRecordsOnce ==
  [][(Did("~AllocTrace") /\ ShenandoahAllocationTrace
        /\ Top(entered[Actor]).traced)
       => LET g == Top(entered[Actor])
              us == (elapsed - g.before) * TickUs
          IN /\ alloc_tracker' =
                  Append(alloc_tracker, << g.words_size, g.alloc_type, us >>)
             /\ warnings' =
                  IF us > ShenandoahAllocationStallThreshold
                  THEN Append(warnings,
                         << us, ShenandoahAllocationStallThreshold >>)
                  ELSE warnings]_vars

\* a traced scope that ran for exactly the threshold has ended: one record,
\* no warning
C7_Witness ==
  /\ last.op = "~AllocTrace"
  /\ ShenandoahAllocationTrace
  /\ ShenandoahAllocationStallThreshold = 100
  /\ Len(alloc_tracker) = 1
  /\ alloc_tracker[1][3] = ShenandoahAllocationStallThreshold
  /\ alloc_tracker[1][1] = 2
  /\ warnings = << >>

\* C8 as stated: the destructor sends a record exactly when the toggle was on
\* at construction, whatever the toggle is when the scope ends.
C8_Original ==
  [][Did("~AllocTrace")
       => IF Top(entered[Actor]).traced
          THEN Len(alloc_tracker') = Len(alloc_tracker) + 1
          ELSE UNCHANGED << alloc_tracker, warnings >>]_vars

\* C9 as stated: constructing a ShenandoahGCSession while another one is
\* alive and no phase is current is stopped as a contract violation and does
\* not overwrite the cause or start a second cycle on timer and tracer.
C9_Original ==
  [][(Did("GCSession") /\ Alive("GCSession") >= 1
        /\ ~is_valid_phase(_current_phase))
       => (fatal' # NoError /\ UNCHANGED << gc_cause, timer, tracer >>)]_vars

\* C9, amended: the constructor does not look for another live session.
\* Whenever no phase is current it goes through, however many sessions are
\* alive: it sets the heap's cause to its own, registers a start with the
\* timer and reports it to the tracer.
C9_SecondSessionProceeds ==
  [][(Did("GCSession") /\ ~is_valid_phase(_current_phase))
       => /\ fatal' = NoError
          /\ Len(stack'[Actor]) = Len(stack[Actor]) + 1
          /\ gc_cause' = Top(stack'[Actor]).cause
          /\ timer'._gc_start = now
          /\ tracer'.gc_starts = tracer.gc_starts + 1
          /\ tracer'.start = now]_vars

\* a second session was constructed inside a live one and took over the cause
C9_Witness ==
  /\ last.op = "GCSession"
  /\ fatal = NoError
  /\ Alive("GCSession") = 2
  /\ tracer.gc_starts = 2
  /\ Len(stack[last.thread]) = 2
  /\ stack[last.thread][1].cause # gc_cause

\* C10 as stated: constructing or destroying a ShenandoahGCSession while a
\* ShenandoahGCPhase or a ShenandoahGCPauseMark is alive is stopped by the
\* assertion at the session boundary.
C10_Original ==
  [][((Did("GCSession") \/ Did("~GCSession"))
        /\ (Alive("GCPhase") >= 1 \/ Alive("GCPauseMark") >= 1))
       => fatal' # NoError]_vars

\* C10, amended: the assertions at the session boundaries look at the
\* current phase only, and only in a debug build: the constructor or the
\* destructor of a ShenandoahGCSession stops the process exactly when
\* asserts are compiled in and _current_phase is a valid phase. A live
\* ShenandoahGCPauseMark does not stop either of them.
C10_BoundaryAssertion ==
  [][(Did("GCSession") \/ Did("~GCSession"))
       => (fatal' # NoError <=> (ASSERT /\ is_valid_phase(_current_phase)))]_vars

\* a session was destroyed while a phase of another thread was current, and
\* the assertion stopped the process
C10_Witness ==
  /\ ASSERT
  /\ last.op = "~GCSession"
  /\ fatal = "No current GC phase"
  /\ Alive("GCPhase") >= 1
  /\ Alive("GCSession") >= 1

\* the constructor refused the thread: the process ended in the thread-role
\* assertion, with the registry and the timing table as they were
PhaseRefused ==
  /\ fatal' = "Must be set by these threads"
  /\ UNCHANGED << _current_phase, phase_timings, stack >>

\* the constructor went through: a guard for some phase was pushed, that phase
\* is the current one and its start was recorded
PhaseEntered ==
  /\ fatal' = NoError
  /\ Len(stack'[Actor]) = Len(stack[Actor]) + 1
  /\ Top(stack'[Actor]).kind = "GCPhase"
  /\ _current_phase' = Top(stack'[Actor])._phase
  /\ phase_timings'[_current_phase'].starts
       = phase_timings[_current_phase'].starts + 1

\* C11 as stated: constructing a ShenandoahGCPhase from a thread that is
\* neither the VM thread nor a concurrent-GC thread ends in the fatal contract
\* violation and changes neither the current phase nor the timing table; from
\* a VM or concurrent-GC thread the construction succeeds.
C11_Original ==
  [][Did("GCPhase") =>
       IF is_VM_thread(Actor) \/ is_ConcurrentGC_thread(Actor)
       THEN PhaseEntered ELSE PhaseRefused]_vars

\* C11: in a debug build, constructing a ShenandoahGCPhase from a thread that
\* is neither the VM thread nor a concurrent-GC thread ends in the fatal
\* contract violation and changes neither the current phase nor the timing
\* table; in a product build the assertion is compiled out and that
\* construction goes through like any other; from a VM or concurrent-GC thread
\* the construction succeeds in either build, whatever the phase.
C11_DebugBuild ==
  [][Did("GCPhase") =>
       IF is_VM_thread(Actor) \/ is_ConcurrentGC_thread(Actor) \/ ~ASSERT
       THEN PhaseEntered ELSE PhaseRefused]_vars

\* a worker thread was refused in a debug build
C11_Witness ==
  /\ ASSERT
  /\ last.op = "GCPhase"
  /\ last.thread = "worker"
  /\ fatal = "Must be set by these threads"
  /\ _current_phase = _invalid_phase

\* the nine root-work phases, by name
RootWorkPhases ==
  { Phase(n) : n \in {"scan_roots", "update_roots", "init_evac",
                      "final_update_refs_roots", "degen_gc_update_roots",
                      "init_traversal_gc_work", "final_traversal_gc_work",
                      "final_traversal_update_roots", "full_gc_roots"} }

\* C12: is_root_work_phase() returns true exactly when the current phase is
\* one of the nine root-work phases, false for every other phase and for
\* _invalid_phase, and the query changes no state: the current phase, the
\* guards and every collaborator are the same before and after.
C12_RootWorkQuery ==
  [][(last'.op = "is_root_work_phase" /\ last' # last) =>
       /\ last'.result = (_current_phase \in RootWorkPhases)
       /\ last'.before = _current_phase'
       /\ UNCHANGED << _current_phase, stack, fatal, phase_timings, calls,
                       gc_cause, timer, tracer, policy, heuristics,
                       worker_id >>]_vars

\* the query answered true inside a full_gc_roots phase
C12_Witness ==
  /\ last.op = "is_root_work_phase"
  /\ last.result
  /\ Cardinality(RootWorkPhases) = 9
  /\ _current_phase = Phase("full_gc_roots")
  /\ Alive("GCPhase") = 1

\* the live guards of a kind, over all threads
Guards(kind) ==
  UNION { { stack[t][i] : i \in { j \in DOMAIN stack[t] :
                                    stack[t][j].kind = kind } } : t \in Threads }

\* the four fields both kinds of trace record have enabled
TimesAndCount(r) ==
  /\ r.recordGCBeginTime
  /\ r.recordGCEndTime
  /\ r.recordAccumulatedGCTime
  /\ r.countCollection

\* C13: every trace record initialized by a ShenandoahGCPauseMark has pre-GC,
\* peak and post-GC usage disabled, every trace record initialized by a
\* ShenandoahGCSession has the three enabled, and both have begin time, end
\* time, accumulated GC time and collection counting enabled.
C13_TraceRecordFlags ==
  /\ \A g \in Guards("GCPauseMark") :
        /\ ~g._trace_pause.recordPreGCUsage
        /\ ~g._trace_pause.recordPeakUsage
        /\ ~g._trace_pause.recordPostGCUsage
        /\ TimesAndCount(g._trace_pause)
  /\ \A g \in Guards("GCSession") :
        /\ g._trace_cycle.recordPreGCUsage
        /\ g._trace_cycle.recordPeakUsage
        /\ g._trace_cycle.recordPostGCUsage
        /\ TimesAndCount(g._trace_cycle)

\* a pause is open inside a cycle: one record of each kind is alive
C13_Witness ==
  /\ Guards("GCSession") # {}
  /\ Guards("GCPauseMark") # {}
  /\ last.op = "GCPauseMark"
  /\ \E g \in Guards("GCPauseMark") : g._trace_pause.cause # _no_gc

\* C14 as stated: the end timestamp ~ShenandoahGCSession passes to the
\* tracer's report_gc_end is the end time the timer registers for that same
\* cycle, the value set by this destructor's register_gc_end, so the reported
\* end of a cycle is not earlier than its reported start.
C14_Original ==
  last.op = "~GCSession" =>
    /\ tracer.end = timer._gc_end
    /\ tracer.end >= tracer.start

\* every phase guard is gone and the registry still names a phase
StalePhase == Alive("GCPhase") = 0 /\ is_valid_phase(_current_phase)

\* C15: _current_phase is protected only by the callers' serialization. With
\* the VM thread and a concurrent-GC thread each nesting their own phases
\* correctly, a state with no phase guard alive and a valid _current_phase
\* arises only after the two threads' guard lifetimes overlapped; while at
\* most one thread at a time has live guards it never does. In that state a
\* ShenandoahGCSession finds its precondition false.
C15_StaleOnlyAfterRace ==
  /\ StalePhase => raced
  /\ (last.op = "GCSession" /\ fatal = "No current GC phase") =>
        (ASSERT /\ is_valid_phase(_current_phase))

\* the interleaving: both threads' phases overlapped, all are destroyed, the
\* registry is left at a valid phase, and the next session was refused
C15_Witness ==
  /\ raced
  /\ StalePhase
  /\ \A t \in Threads : stack[t] = << >>
  /\ last.op = "GCSession"
  /\ fatal = "No current GC phase"

\* the calls made on the phase-timing table, in order
IsPhaseCall(c) == c[1] = "phase_timings"

PhaseCalls == SelectSeq(calls, IsPhaseCall)

\* the phases left open by a sequence of phase-timing calls read as brackets:
\* a start opens its phase, an end must close the innermost open phase; a
\* sequence that is not well bracketed yields << -1 >>
RECURSIVE OpenPhases(_, _)
OpenPhases(cs, open) ==
  IF cs = << >> THEN open
  ELSE IF Head(cs)[2] = "record_phase_start"
       THEN OpenPhases(Tail(cs), Append(open, Head(cs)[3]))
       ELSE IF open # << >> /\ Top(open) = Head(cs)[3]
            THEN OpenPhases(Tail(cs), Pop(open))
            ELSE << -1 >>

IsPhaseGuard(g) == g.kind = "GCPhase"

\* the phases of a thread's live ShenandoahGCPhase guards, outermost first
LivePhases(t) ==
  LET gs == SelectSeq(stack[t], IsPhaseGuard)
  IN  [i \in 1..Len(gs) |-> gs[i]._phase]

\* C16: over stack-nested phase guards the calls on the phase-timing table
\* are well bracketed: a guard's constructor makes exactly one
\* record_phase_start(P), its destructor exactly one record_phase_end(P) with
\* the P it was constructed with, and an inner guard's end comes before the
\* end of every guard enclosing it, so the starts not yet ended are exactly
\* the live guards' phases in nesting order.
C16_WellBracketed ==
  [][/\ \E t \in Threads :
          /\ OpenPhases(PhaseCalls', << >>) = LivePhases(t)'
          /\ \A u \in Threads \ {t} : LivePhases(u)' = << >>
     /\ (Did("GCPhase") /\ fatal' = NoError) =>
          /\ calls' = Append(calls, << "phase_timings", "record_phase_start",
                                       Top(stack'[Actor])._phase >>)
          /\ Top(entered'[Actor]).phase = Top(stack'[Actor])._phase
     /\ Did("~GCPhase") =>
          calls' = Append(calls, << "phase_timings", "record_phase_end",
                                    Top(entered[Actor]).phase >>)]_vars

\* two nested guards were opened and closed: start, start, end, end
C16_Witness ==
  /\ last.op = "~GCPhase"
  /\ Alive("GCPhase") = 0
  /\ PhaseCalls =
       << << "phase_timings", "record_phase_start", Phase("conc_mark") >>,
          << "phase_timings", "record_phase_start", Phase("scan_roots") >>,
          << "phase_timings", "record_phase_end", Phase("scan_roots") >>,
          << "phase_timings", "record_phase_end", Phase("conc_mark") >> >>

IsHeuristicsCall(c) == c[1] = "heuristics"

\* the notifications the heuristics received, in order
HeuristicsCalls == SelectSeq(calls, IsHeuristicsCall)

\* where a sequence of heuristics notifications leaves a reader that accepts
\* record_cycle_start (record_gc_start record_gc_end)* record_cycle_end,
\* repeated: "idle" between cycles, "cycle" inside one, "pause" inside a
\* pause, "bad" once a notification comes out of turn
RECURSIVE CycleState(_, _)
CycleState(hs, at) ==
  IF hs = << >> THEN at
  ELSE LET n == Head(hs)[2]
           to == CASE at = "idle" /\ n = "record_cycle_start" -> "cycle"
                   [] at = "cycle" /\ n = "record_gc_start" -> "pause"
                   [] at = "pause" /\ n = "record_gc_end" -> "cycle"
                   [] at = "cycle" /\ n = "record_cycle_end" -> "idle"
                   [] OTHER -> "bad"
       IN  IF to = "bad" THEN "bad" ELSE CycleState(Tail(hs), to)

IsPauseCall(c) ==
  c \in { << "timer", "register_gc_phase_start", "Shenandoah" >>,
          << "heuristics", "record_gc_start" >>,
          << "timer", "register_gc_phase_end" >>,
          << "heuristics", "record_gc_end" >> }
    \/ (c[1] = "timer" /\ c[2] = "register_gc_phase_start")

\* the calls pauses make on the timer's phase bracket and on the heuristics
PauseCalls == SelectSeq(calls, IsPauseCall)

\* what one pause calls, from its construction to the end of its destruction
OnePause ==
  << << "timer", "register_gc_phase_start", "Shenandoah" >>,
     << "heuristics", "record_gc_start" >>,
     << "timer", "register_gc_phase_end" >>,
     << "heuristics", "record_gc_end" >> >>

\* C17: in a cycle whose pauses are sequential the heuristics receives
\* record_cycle_start, then per pause one record_gc_start followed by one
\* record_gc_end, then record_cycle_end; each pause opens exactly one timer
\* phase bracket, register_gc_phase_start("Shenandoah"), and closes it with
\* register_gc_phase_end before its record_gc_end.
C17_NotificationOrder ==
  /\ CycleState(HeuristicsCalls, "idle") =
       (IF Alive("GCPauseMark") = 1 THEN "pause"
        ELSE IF Alive("GCSession") = 1 THEN "cycle" ELSE "idle")
  /\ \A i \in 1..Len(PauseCalls) : PauseCalls[i] = OnePause[((i - 1) % 4) + 1]
  /\ Len(PauseCalls) % 4 = (IF Alive("GCPauseMark") = 1 THEN 2 ELSE 0)
  /\ Len(timer.phases) = Alive("GCPauseMark")

\* a whole cycle with two pauses has run
C17_Witness ==
  /\ last.op = "~GCSession"
  /\ Len(PauseCalls) = 8
  /\ [i \in 1..Len(HeuristicsCalls) |-> HeuristicsCalls[i][2]] =
       << "record_cycle_start", "record_gc_start", "record_gc_end",
          "record_gc_start", "record_gc_end", "record_cycle_end" >>

\* C18: constructing and destroying a ShenandoahGCPauseMark leaves the phase
\* registry alone: _current_phase is the same after the constructor and after
\* the destructor as before, and no record_phase_start or record_phase_end
\* is made; constructing and destroying a ShenandoahGCSession never writes
\* _current_phase either.
C18_RegistryUntouched ==
  [][(\E op \in {"GCPauseMark", "~GCPauseMark", "GCSession", "~GCSession"} :
         Did(op)) =>
       /\ _current_phase' = _current_phase
       /\ phase_timings' = phase_timings
       /\ SelectSeq(calls', IsPhaseCall) = SelectSeq(calls, IsPhaseCall)]_vars

\* a pause was opened and closed inside a phase, which is still the current
\* one
C18_Witness ==
  /\ last.op = "~GCPauseMark"
  /\ Alive("GCPhase") = 1
  /\ _current_phase = Phase("scan_roots")
  /\ heuristics.gc_end = 1

\* the saved parents of a thread's live ShenandoahGCPhase guards, outermost
\* first
LiveParents(t) ==
  LET gs == SelectSeq(stack[t], IsPhaseGuard)
  IN  [i \in 1..Len(gs) |-> gs[i]._parent_phase]

\* C19: with stack-nested phase guards used by one thread at a time,
\* _current_phase is the phase of the most recently constructed guard still
\* alive, and _invalid_phase when none is; each live guard's saved parent is
\* the phase of the guard directly enclosing it, _invalid_phase for the
\* outermost.
C19_CurrentIsInnermost ==
  \E t \in Threads :
    /\ \A u \in Threads \ {t} : LivePhases(u) = << >>
    /\ _current_phase = (IF LivePhases(t) = << >> THEN _invalid_phase
                         ELSE Top(LivePhases(t)))
    /\ \A i \in DOMAIN LiveParents(t) :
          LiveParents(t)[i] = (IF i = 1 THEN _invalid_phase
                               ELSE LivePhases(t)[i - 1])

\* two guards are alive, one inside the other, with a pause between them
C19_Witness ==
  /\ LivePhases("vm") = << Phase("conc_mark"), Phase("scan_roots") >>
  /\ LiveParents("vm") = << _invalid_phase, Phase("conc_mark") >>
  /\ Len(stack["vm"]) = 3
  /\ _current_phase = Phase("scan_roots")

IsWorkerGuard(g) == g.kind = "WorkerSession"

\* a thread's live ShenandoahWorkerSession guards
WorkerGuards(t) == SelectSeq(stack[t], IsWorkerGuard)

\* every live guard was constructed with a real id
RealIds ==
  \A t \in Threads : \A i \in DOMAIN WorkerGuards(t) :
    WorkerGuards(t)[i]._worker_id # INVALID_WORKER_ID

\* C20: in a debug build in which every ShenandoahWorkerSession is
\* constructed with an id other than INVALID_WORKER_ID, the destructor's
\* "Must be set" assertion never fails: each thread has at most one guard
\* alive, its worker id is that guard's id while the guard is alive and
\* INVALID_WORKER_ID while none is, and a guard's constructor and destructor
\* change no other thread's worker id.
C20_MustBeSetHolds ==
  [][/\ (ASSERT /\ RealIds') =>
          /\ fatal' # "Must be set"
          /\ \A t \in Threads :
                /\ Len(WorkerGuards(t)') <= 1
                /\ worker_id'[t] =
                     (IF WorkerGuards(t)' = << >> THEN INVALID_WORKER_ID
                      ELSE WorkerGuards(t)'[1]._worker_id)
     /\ (Did("WorkerSession") \/ Did("~WorkerSession")) =>
          \A u \in Threads \ {Actor} : worker_id'[u] = worker_id[u]]_vars

\* in a debug build one thread's guard was destroyed, and its id reset, while
\* another thread's guard is alive with its own id
C20_Witness ==
  /\ ASSERT
  /\ RealIds
  /\ last.op = "~WorkerSession"
  /\ fatal = NoError
  /\ worker_id[last.thread] = INVALID_WORKER_ID
  /\ last.before # INVALID_WORKER_ID
  /\ \E u \in Threads \ {last.thread} :
        /\ Len(WorkerGuards(u)) = 1
        /\ worker_id[u] = WorkerGuards(u)[1]._worker_id

==========================================================================
